---- MODULE Spec2Model ----
(***************************************************************************)
(* A model of OpenAIService.chat (src/openai_service.py): one chat turn    *)
(* against the upstream assistant API (thread, message, run, status poll,  *)
(* message list) followed by the citation pass over the annotations of the *)
(* assistant message and the rewrite of the response text.                 *)
(*                                                                         *)
(* Strings the code slices, formats or searches (texts, markers, file      *)
(* identifiers, file names) are sequences of one-character strings.  An    *)
(* Optional value is <<>> (None) or <<v>>.  A dict whose order matters     *)
(* (citation_mapping) is a sequence of <<key, value>> pairs in insertion   *)
(* order; the other dicts are functions.                                   *)
(***************************************************************************)
EXTENDS Integers, Sequences, FiniteSets, TLC

VARIABLES pc, thread_id, created_thread, run_id, iterations, checks,
          waits, run_status, error, assistant_message, annotations, idx,
          response_text, file_cache, citation_mapping, seen_files,
          citations, file_to_link, calls, lookup_failed,
          req_thread_id, http_response, reply_has_match,
          lpc, document, reference_data, file_to_title, li, load_error,
          upstream, frames, file_caches,
          dpc, drive_pages, page_token, archivos_formateados, drive_requests,
          drive_result

vars == <<pc, thread_id, created_thread, run_id, iterations, checks,
          waits, run_status, error, assistant_message, annotations, idx,
          response_text, file_cache, citation_mapping, seen_files,
          citations, file_to_link, calls, lookup_failed,
          req_thread_id, http_response, reply_has_match,
          lpc, document, reference_data, file_to_title, li, load_error,
          upstream, frames, file_caches,
          dpc, drive_pages, page_token, archivos_formateados, drive_requests,
          drive_result>>

\* DriveSearchService.buscar_en_carpeta: its position, the result pages the
\* Drive API holds, the locals, the page tokens requested, the list returned.
driveVars == <<dpc, drive_pages, page_token, archivos_formateados,
               drive_requests, drive_result>>

\* Two calls of chat at once: what the upstream answers to each, the locals
\* of each call, and the file-name caches.
concVars == <<upstream, frames, file_caches>>

\* The state of SourceLinker.__init__ besides file_to_link: its position, the
\* reference file, the attributes and the exception that left it.
loadVars == <<lpc, document, reference_data, file_to_title, li, load_error>>

\* The state outside the locals of chat: the request of POST /ask and its
\* response, and whether the message list the upstream returned held an
\* assistant message of this run.
envVars == <<req_thread_id, http_response, reply_has_match, loadVars,
             concVars, driveVars>>

(***************************************************************************)
(* Bounds of the model.                                                    *)
(***************************************************************************)
\* The longest annotation list of an assistant message.
MaxAnnotations == 2

\* The longest raw text, in tokens of TextTokens.
MaxTokens == 3

\* The longest reference document, in items.
MaxItems == 2

\* The longest annotation list of a message when two turns run at once.
MaxConcAnnotations == 2

\* The most result pages of a Drive search, and the most files of a page.
MaxPages == 2

MaxPageFiles == 2

(***************************************************************************)
(* Values.                                                                 *)
(***************************************************************************)
None == <<>>

Some(v) == <<v>>

EmptyDict == [k \in {} |-> <<>>]

Str_Archivo == <<"A", "r", "c", "h", "i", "v", "o", " ">>

\* The upstream file identifiers: one longer than 8 characters, one shorter.
FileId1 == <<"f", "-", "a", "b", "c", "d", "e", "f", "g", "1">>

FileId2 == <<"f", "2">>

FileIds == {FileId1, FileId2}

Name_A == <<"A", ".", "p", "d", "f">>

Name_B == <<"B", ".", "p", "d", "f">>

Name_C == <<"C", ".", "p", "d", "f">>

\* The file names the upstream file-metadata endpoint may report.
FileNames == {Name_A, Name_B, Name_C}

\* The original markers of annotations: one in the upstream style and one
\* that has the shape of a display marker.
Marker_Plus == <<"+">>

Marker_Bracket1 == <<"[", "1", "]">>

Markers == {Marker_Plus, Marker_Bracket1}

\* The pieces a raw assistant text is made of.
TextTokens == {<<"+">>, <<"[">>, <<"1", "]">>}

RECURSIVE TokenTexts(_)
TokenTexts(n) ==
    IF n = 0 THEN {<<>>}
    ELSE LET shorter == TokenTexts(n - 1)
         IN  shorter \cup {t \o k : t \in shorter, k \in TextTokens}

RawTexts == TokenTexts(MaxTokens)

(***************************************************************************)
(* The reference index: SourceLinker.__init__ and get_download_link.       *)
(***************************************************************************)
\* An item of the reference document that is not a JSON object.
NotADict == [not_a_dict |-> TRUE]

\* The reference document fuente_agente_v1.json as json.load returns it:
\* well-formed records, a record without a link, an item that is no object,
\* a record with an empty link and two records for one file name.
ReferenceData ==
    << [file |-> Name_A, title |-> "Old A", link |-> "https://old/A"],
       [file |-> Name_B, title |-> "B"],
       NotADict,
       [file |-> Name_C, title |-> "C", link |-> ""],
       [file |-> Str_Archivo \o SubSeq(FileId1, 3, 10), title |-> "F",
        link |-> "https://l/F"],
       [file |-> Name_A, title |-> "A", link |-> "https://l/A"] >>

\* isinstance(item, dict) and "file" in item and "link" in item and
\* "title" in item
ValidItem(item) ==
    /\ "not_a_dict" \notin DOMAIN item
    /\ "file" \in DOMAIN item
    /\ "link" \in DOMAIN item
    /\ "title" \in DOMAIN item

\* The loop of SourceLinker.__init__ over reference_data, for file_to_link:
\* a later record of a file name overwrites an earlier one.
RECURSIVE LoadLinks(_, _)
LoadLinks(data, n) ==
    IF n = 0 THEN EmptyDict
    ELSE LET before == LoadLinks(data, n - 1)
             item == data[n]
         IN  IF ValidItem(item)
             THEN [f \in (DOMAIN before) \cup {item.file} |->
                     IF f = item.file THEN item.link ELSE before[f]]
             ELSE before

\* The same loop for file_to_title.
RECURSIVE LoadTitles(_, _)
LoadTitles(data, n) ==
    IF n = 0 THEN EmptyDict
    ELSE LET before == LoadTitles(data, n - 1)
             item == data[n]
         IN  IF ValidItem(item)
             THEN [f \in (DOMAIN before) \cup {item.file} |->
                     IF f = item.file THEN item.title ELSE before[f]]
             ELSE before

\* SourceLinker.get_download_link: dict.get, None when the key is absent.
get_download_link(filename) ==
    IF filename \in DOMAIN file_to_link
    THEN Some(file_to_link[filename])
    ELSE None

(***************************************************************************)
(* Pure helpers of chat.                                                   *)
(***************************************************************************)
max_iterations == 60

\* run_status.status in ["completed", "failed", "cancelled"]
IsTerminalStatus(status) == status \in {"completed", "failed", "cancelled"}

\* A loop that runs once more.
LoopContinues_Inclusive(n) == n <= max_iterations

\* The condition of the while loop.
LoopContinues(n) == n < max_iterations

\* A timeout test that is off by one.
TimedOut_OffByOne(n) == n >= max_iterations - 1

\* if iterations >= max_iterations
TimedOut(n) == n >= max_iterations

\* file_id[-8:]: the last 8 characters, the whole string when it is shorter.
Last8(s) == IF Len(s) <= 8 THEN s ELSE SubSeq(s, Len(s) - 7, Len(s))

\* A fallback name from the whole identifier.
FallbackName_WholeId(file_id) == Str_Archivo \o file_id

\* f"Archivo {file_citation.file_id[-8:]}"
FallbackName(file_id) == Str_Archivo \o Last8(file_id)

\* A test for None alone, which lets the empty link through.
HasValidLink_NotNone(download_link) == download_link # None

\* if download_link: None and the empty string are both falsy.
HasValidLink(download_link) == download_link # None /\ download_link[1] # ""

\* A pass that never recognises a file it has already cited.
AlreadySeen_Never(file_id, seen) == FALSE

\* file_citation.file_id in seen_files
AlreadySeen(file_id, seen) == file_id \in DOMAIN seen

\* Numbering from zero.
NewNumber_FromZero(cits) == Len(cits)

\* new_number = len(citations) + 1
NewNumber(cits) == Len(cits) + 1

Digits == <<"0", "1", "2", "3", "4", "5", "6", "7", "8", "9">>

\* str(n) for n >= 0
RECURSIVE Decimal(_)
Decimal(n) ==
    IF n < 10 THEN <<Digits[n + 1]>>
    ELSE Decimal(n \div 10) \o <<Digits[(n % 10) + 1]>>

\* A display marker that ignores the number.
DisplayMarker_AlwaysOne(n) == <<"[", "1", "]">>

\* new_marker = f"[{new_number}]"
DisplayMarker(n) == <<"[">> \o Decimal(n) \o <<"]">>

\* The position of key k in the dict d (a sequence of pairs), 0 when absent.
KeyIndex(d, k) ==
    IF \E i \in 1..Len(d) : d[i][1] = k
    THEN CHOOSE i \in 1..Len(d) : d[i][1] = k
    ELSE 0

\* A dict that keeps the first value of a key (setdefault).
DictSet_KeepFirst(d, k, v) ==
    IF KeyIndex(d, k) = 0 THEN Append(d, <<k, v>>) ELSE d

\* d[k] = v on a Python dict: an existing key keeps its place in the
\* iteration order, a new key goes last.
DictSet(d, k, v) ==
    IF KeyIndex(d, k) = 0
    THEN Append(d, <<k, v>>)
    ELSE [d EXCEPT ![KeyIndex(d, k)] = <<k, v>>]

\* Does old stand in t at position p?
OccursAt(t, old, p) ==
    /\ p >= 1
    /\ p + Len(old) - 1 <= Len(t)
    /\ SubSeq(t, p, p + Len(old) - 1) = old

\* str.replace(old, new) from position p on: the leftmost occurrences that
\* do not overlap, left to right.
RECURSIVE ReplaceFrom(_, _, _, _)
ReplaceFrom(t, old, new, p) ==
    IF p > Len(t) THEN <<>>
    ELSE IF OccursAt(t, old, p)
         THEN new \o ReplaceFrom(t, old, new, p + Len(old))
         ELSE <<t[p]>> \o ReplaceFrom(t, old, new, p + 1)

\* str.replace("", new) puts new before every character and at the end.
RECURSIVE Interleave(_, _, _)
Interleave(t, new, p) ==
    IF p > Len(t) THEN new
    ELSE new \o <<t[p]>> \o Interleave(t, new, p + 1)

\* response_text.replace(original_marker, new_marker)
Replace(t, old, new) ==
    IF old = <<>> THEN Interleave(t, new, 1) ELSE ReplaceFrom(t, old, new, 1)

\* A rewrite that deletes every upstream-style marker, annotated or not.
RewriteText_DropsPlus(text, mapping, n) == Replace(text, Marker_Plus, <<>>)

\* for original_marker, new_marker in citation_mapping.items():
\*     response_text = response_text.replace(original_marker, new_marker)
\* after the first n entries of the mapping.
RECURSIVE RewriteText(_, _, _)
RewriteText(text, mapping, n) ==
    IF n = 0 THEN text
    ELSE Replace(RewriteText(text, mapping, n - 1), mapping[n][1], mapping[n][2])

(***************************************************************************)
(* What the upstream assistant API may answer.                             *)
(***************************************************************************)
SuppliedThreadIds == {"thread_caller"}

NewThreadIds == {"thread_new"}

RunIds == {"run_1"}

OtherRunId == "run_0"

RunStatuses ==
    {"queued", "in_progress", "requires_action", "completed", "failed",
     "cancelled"}

\* run_status.last_error as the exception message prints it.
LastErrors == {"None", "server_error"}

\* An annotation with a file_citation attribute, and one without it.
AnnotationChoices ==
    {[type |-> "file_citation", text |-> m, file_id |-> f] :
        m \in Markers, f \in FileIds}
    \cup {[type |-> "file_path", text |-> m, file_id |-> None] : m \in Markers}

RECURSIVE AnnotationLists(_)
AnnotationLists(n) ==
    IF n = 0 THEN {<<>>}
    ELSE LET shorter == AnnotationLists(n - 1)
         IN  shorter \cup {Append(l, a) : l \in shorter, a \in AnnotationChoices}

AllAnnotationLists == AnnotationLists(MaxAnnotations)

\* The message contents of the citation pass's specification: every raw text
\* with every annotation list.
PassTexts == RawTexts

PassLists == AllAnnotationLists

\* The message contents of the whole turn's specification: the texts of at
\* most one token, and the annotation lists of at most one annotation or of
\* one annotation twice.
TurnTexts == RawTexts \cap {<<>>, <<"+">>}

TurnLists ==
    {l \in AllAnnotationLists : Len(l) <= 1 \/ (Len(l) = 2 /\ l[1] = l[2])}

\* message.content: no block, a block without a text attribute, or a text
\* block with its value and annotations.
NoTextContents == {<<>>, <<[type |-> "image_file"]>>}

TextContent(t, l) == <<[type |-> "text", value |-> t, annotations |-> l]>>

UserMessage == [role |-> "user", run_id |-> None, content |-> <<>>]

AssistantMessage(rid, c) == [role |-> "assistant", run_id |-> Some(rid), content |-> c]

\* messages.data of the thread, newest first: the lists without a message of
\* this run, and the lists around a message of this run with content c.
ListsWithout == {<<>>, <<UserMessage>>, <<AssistantMessage(OtherRunId, <<>>), UserMessage>>}

ListsAround(rid, c) ==
    { <<AssistantMessage(rid, c), UserMessage>>,
      <<AssistantMessage(OtherRunId, <<>>), AssistantMessage(rid, c)>>,
      <<AssistantMessage(rid, c), AssistantMessage(rid, <<>>)>> }

\* client.files.retrieve(file_id): a file name, or an exception.
RetrieveOutcomes ==
    {[ok |-> TRUE, filename |-> n] : n \in FileNames}
    \cup {[ok |-> FALSE, filename |-> <<>>]}

Call(op, tid, fid) == [op |-> op, thread_id |-> tid, file_id |-> fid]

Exc(msg, arg) == Some([msg |-> msg, arg |-> arg])

(***************************************************************************)
(* The reference file as SourceLinker.__init__ may find it.                *)
(***************************************************************************)
\* What json.load returns: kind is the JSON type, items what iterating over
\* the value yields (the items of an array, the keys of an object, the
\* characters of a string, each of the last two no dict).
JsonArray(items) == [kind |-> "array", items |-> items]

\* The items of a reference document: records with the three fields, with
\* an empty link, without one of the fields, an item that is no object, and
\* a record whose file value is a JSON array and not a string.
ItemChoices ==
    { [file |-> Name_A, title |-> "T1", link |-> "https://l/1"],
      [file |-> Name_A, title |-> "T2", link |-> "https://l/2"],
      [file |-> Name_B, title |-> "T1", link |-> "https://l/1"],
      [file |-> Name_B, title |-> "T3", link |-> ""],
      [file |-> Name_A, title |-> "T1"],
      [file |-> Name_B, link |-> "https://l/2"],
      [title |-> "T1", link |-> "https://l/1"],
      NotADict,
      [file |-> <<"x">>, file_is_list |-> TRUE, title |-> "T1",
       link |-> "https://l/1"] }

RECURSIVE ItemLists(_)
ItemLists(n) ==
    IF n = 0 THEN {<<>>}
    ELSE LET shorter == ItemLists(n - 1)
         IN  shorter \cup {Append(l, it) : l \in shorter, it \in ItemChoices}

\* The reference file: absent, not JSON, or a JSON value of any type.
Documents ==
    { [kind |-> "missing", items |-> <<>>],
      [kind |-> "invalid_json", items |-> <<>>],
      [kind |-> "null", items |-> <<>>],
      [kind |-> "number", items |-> <<>>],
      [kind |-> "true", items |-> <<>>],
      [kind |-> "string", items |-> <<NotADict, NotADict>>],
      [kind |-> "object", items |-> <<NotADict, NotADict, NotADict>>],
      JsonArray(ReferenceData) }
    \cup {JsonArray(l) : l \in ItemLists(MaxItems)}

\* enumerate(x) raises TypeError unless x is iterable.
Iterable(value) == value.kind \in {"array", "object", "string"}

\* d[item["file"]] = ... raises TypeError when the key is a list.
Hashable(item) == "file_is_list" \notin DOMAIN item

(***************************************************************************)
(* The SourceLinker of src/drive_service.py, which maps the file names of  *)
(* Drive to display titles, with and without the extension.                *)
(***************************************************************************)
\* The characters of the titles of the reference document.
Chars(t) ==
    CASE t = "Old A" -> <<"O", "l", "d", " ", "A">>
      [] t = "A" -> <<"A">>
      [] t = "B" -> <<"B">>
      [] t = "C" -> <<"C">>
      [] t = "F" -> <<"F">>

\* isinstance(item, dict) and "file" in item and "title" in item
DriveValidItem(item) ==
    /\ "not_a_dict" \notin DOMAIN item
    /\ "file" \in DOMAIN item
    /\ "title" \in DOMAIN item

\* The position of the last "." of s, 0 when it has none.
LastDot(s) ==
    IF \E i \in 1..Len(s) : s[i] = "."
    THEN CHOOSE i \in 1..Len(s) :
             s[i] = "." /\ \A j \in (i + 1)..Len(s) : s[j] # "."
    ELSE 0

\* filename.rsplit('.', 1)[0] if '.' in filename else filename
remove_extension(filename) ==
    IF LastDot(filename) = 0 THEN filename
    ELSE SubSeq(filename, 1, LastDot(filename) - 1)

\* file_to_title after the first n items of the reference document.
RECURSIVE DriveTitles(_, _)
DriveTitles(data, n) ==
    IF n = 0 THEN EmptyDict
    ELSE LET before == DriveTitles(data, n - 1)
             item == data[n]
         IN  IF DriveValidItem(item)
             THEN (item.file :> Chars(item.title)) @@ before
             ELSE before

\* file_no_ext_to_title after the first n items.
RECURSIVE DriveNoExtTitles(_, _)
DriveNoExtTitles(data, n) ==
    IF n = 0 THEN EmptyDict
    ELSE LET before == DriveNoExtTitles(data, n - 1)
             item == data[n]
         IN  IF DriveValidItem(item)
             THEN (remove_extension(item.file) :> Chars(item.title)) @@ before
             ELSE before

\* SourceLinker.get_title: the exact name, then the name without its
\* extension, then the file name itself.
get_title(filename) ==
    LET titles == DriveTitles(ReferenceData, Len(ReferenceData))
        no_ext == DriveNoExtTitles(ReferenceData, Len(ReferenceData))
    IN  IF filename \in DOMAIN titles THEN titles[filename]
        ELSE IF remove_extension(filename) \in DOMAIN no_ext
        THEN no_ext[remove_extension(filename)]
        ELSE filename

(***************************************************************************)
(* What the Drive API may answer to files().list.                          *)
(***************************************************************************)
\* Get(d, k): dict.get, None when the key is absent.
Get(d, k) == IF k \in DOMAIN d THEN Some(d[k]) ELSE None

\* The files of Drive: one whose name is in the reference document, one
\* that matches without its extension and has no view link, one that does
\* not match.
DriveFiles ==
    { [id |-> "d1", name |-> Name_A, webViewLink |-> "https://v/1",
       mimeType |-> "application/pdf", size |-> "10",
       modifiedTime |-> "2024-01-01"],
      [id |-> "d2", name |-> <<"B", ".", "d", "o", "c">>],
      [id |-> "d3", name |-> <<"Z">>, webViewLink |-> "https://v/3"] }

RECURSIVE DriveFileLists(_)
DriveFileLists(n) ==
    IF n = 0 THEN {<<>>}
    ELSE LET shorter == DriveFileLists(n - 1)
         IN  shorter \cup {Append(l, f) : l \in shorter, f \in DriveFiles}

\* The page token that the k-th page carries when it is not the last.
TokenOf(k) == <<"t1", "t2", "t3", "t4">>[k]

\* The result of files().list: with a files list or without the key, with
\* a nextPageToken or without.
DrivePageChoices(k) ==
    {[files |-> l, nextPageToken |-> TokenOf(k)] : l \in DriveFileLists(MaxPageFiles)}
    \cup {[files |-> l] : l \in DriveFileLists(MaxPageFiles)}
    \cup {[nextPageToken |-> TokenOf(k)], [kind |-> "drive#fileList"]}

\* The first n pages of a search that goes on: each carries a token.
RECURSIVE DrivePagesBefore(_)
DrivePagesBefore(n) ==
    IF n = 0 THEN {<<>>}
    ELSE {Append(l, pg) :
             l \in DrivePagesBefore(n - 1),
             pg \in {q \in DrivePageChoices(n) : "nextPageToken" \in DOMAIN q}}

\* The pages of a search: the last page, and no page before it, has no
\* token.
DrivePageLists(n) ==
    UNION {{Append(l, pg) :
               l \in DrivePagesBefore(k - 1),
               pg \in {q \in DrivePageChoices(k) : "nextPageToken" \notin DOMAIN q}} :
           k \in 1..n}

\* The page the API returns for a page token: the first page for None, the
\* page after the one that carried the token otherwise.
PageFor(pages, token) ==
    IF token = None THEN pages[1]
    ELSE pages[1 + CHOOSE k \in 1..Len(pages) : TokenOf(k) = token[1]]

(***************************************************************************)
(* Two chat turns at once.                                                 *)
(***************************************************************************)
TurnIds == {1, 2}

\* No second call of chat is under way.
NoTurns == <<>>

\* The annotations, texts and file-lookup answers of the two turns.
ConcAnnotationChoices ==
    { [type |-> "file_citation", text |-> Marker_Plus, file_id |-> FileId1],
      [type |-> "file_citation", text |-> Marker_Bracket1, file_id |-> FileId2] }

RECURSIVE ConcAnnotationLists(_)
ConcAnnotationLists(n) ==
    IF n = 0 THEN {<<>>}
    ELSE LET shorter == ConcAnnotationLists(n - 1)
         IN  shorter \cup {Append(l, a) : l \in shorter, a \in ConcAnnotationChoices}

ConcLists == ConcAnnotationLists(MaxConcAnnotations)

ConcTexts == {<<"+">>, <<"[", "1", "]", "+">>}

\* What files.retrieve answers in one turn, for each file identifier.
ConcNames ==
    { (FileId1 :> r) @@ (FileId2 :> [ok |-> TRUE, filename |-> Name_A]) :
        r \in { [ok |-> TRUE, filename |-> Name_A],
                [ok |-> TRUE, filename |-> Name_B],
                [ok |-> FALSE, filename |-> <<>>] } }

(***************************************************************************)
(* The state after construction: OpenAIService.__init__ has built the      *)
(* SourceLinker, and chat is called with or without a thread id.           *)
(***************************************************************************)
Init ==
    /\ pc = "thread"
    /\ thread_id \in {None} \cup {Some(t) : t \in SuppliedThreadIds}
    /\ req_thread_id = thread_id
    /\ http_response = None
    /\ reply_has_match = None
    /\ lpc = "loaded"
    /\ document = JsonArray(ReferenceData)
    /\ reference_data = Some(JsonArray(ReferenceData))
    /\ file_to_title = LoadTitles(ReferenceData, Len(ReferenceData))
    /\ li = Len(ReferenceData)
    /\ load_error = None
    /\ upstream = NoTurns
    /\ frames = NoTurns
    /\ file_caches = NoTurns
    /\ dpc = "idle"
    /\ drive_pages = <<>>
    /\ page_token = None
    /\ archivos_formateados = <<>>
    /\ drive_requests = <<>>
    /\ drive_result = None
    /\ created_thread = FALSE
    /\ run_id = ""
    /\ iterations = 0
    /\ checks = 0
    /\ waits = 0
    /\ run_status = [status |-> "", last_error |-> "None"]
    /\ error = None
    /\ assistant_message = None
    /\ annotations = <<>>
    /\ idx = 0
    /\ response_text = <<>>
    /\ file_cache = EmptyDict
    /\ citation_mapping = <<>>
    /\ seen_files = EmptyDict
    /\ citations = <<>>
    /\ file_to_link = LoadLinks(ReferenceData, Len(ReferenceData))
    /\ calls = <<>>
    /\ lookup_failed = {}

passVars == <<assistant_message, annotations, idx, response_text, file_cache,
              citation_mapping, seen_files, citations, lookup_failed>>

pollVars == <<iterations, checks, waits, run_status>>

(***************************************************************************)
(* chat, lines 98-119: thread, user message, run.                          *)
(***************************************************************************)
\* A turn that opens a new thread whatever the caller passed.
NoThreadSupplied_Always(tid) == TRUE

\* if thread_id is None
NoThreadSupplied(tid) == tid = None

CreateThread ==
    /\ pc = "thread"
    /\ NoThreadSupplied(thread_id)
    /\ \E t \in NewThreadIds :
         /\ thread_id' = Some(t)
         /\ calls' = Append(calls, Call("threads.create", "", <<>>))
    /\ created_thread' = TRUE
    /\ pc' = "message"
    /\ UNCHANGED <<run_id, pollVars, error, passVars, file_to_link, envVars>>

ReuseThread ==
    /\ pc = "thread"
    /\ ~NoThreadSupplied(thread_id)
    /\ pc' = "message"
    /\ UNCHANGED <<thread_id, created_thread, run_id, pollVars, error,
                   passVars, file_to_link, envVars, calls>>

SendMessage ==
    /\ pc = "message"
    /\ calls' = Append(calls, Call("messages.create", thread_id[1], <<>>))
    /\ pc' = "run"
    /\ UNCHANGED <<thread_id, created_thread, run_id, pollVars, error,
                   passVars, file_to_link, envVars>>

CreateRun ==
    /\ pc = "run"
    /\ \E r \in RunIds : run_id' = r
    /\ calls' = Append(calls, Call("runs.create", thread_id[1], <<>>))
    /\ iterations' = 0
    /\ pc' = IF LoopContinues(0) THEN "poll" ELSE "polled"
    /\ UNCHANGED <<thread_id, created_thread, checks, waits, run_status,
                   error, passVars, file_to_link, envVars>>

(***************************************************************************)
(* chat, lines 126-132: the status check of one turn of the while loop and *)
(* the test of its status.  On a terminal status the loop is left; on any  *)
(* other status chat goes into time.sleep(1) with iterations not yet       *)
(* incremented.                                                            *)
(***************************************************************************)
PollOnce ==
    /\ pc = "poll"
    /\ \E st \in RunStatuses, le \in LastErrors :
         /\ run_status' = [status |-> st, last_error |-> le]
         /\ pc' = IF IsTerminalStatus(st) THEN "polled" ELSE "sleep"
    /\ checks' = checks + 1
    /\ calls' = Append(calls, Call("runs.retrieve", thread_id[1], <<>>))
    /\ UNCHANGED <<thread_id, created_thread, run_id, iterations, waits, error,
                   passVars, file_to_link, envVars>>

(***************************************************************************)
(* chat, lines 134-135 and 125: time.sleep(1) returns, iterations += 1,    *)
(* and the condition of the while loop is tested again.                    *)
(***************************************************************************)
Sleep ==
    /\ pc = "sleep"
    /\ waits' = waits + 1
    /\ iterations' = iterations + 1
    /\ pc' = IF LoopContinues(iterations + 1) THEN "poll" ELSE "polled"
    /\ UNCHANGED <<thread_id, created_thread, run_id, checks, run_status, error,
                   passVars, file_to_link, envVars, calls>>

(***************************************************************************)
(* chat, lines 137-144: what the loop ended with.                          *)
(***************************************************************************)
\* A turn that goes on to the message list whenever it has not timed out.
AfterPoll_NoStatusTest ==
    /\ pc = "polled"
    /\ IF TimedOut(iterations)
       THEN /\ error' = Exc("Request timeout - assistant took too long to respond", "")
            /\ pc' = "raised"
       ELSE /\ error' = error
            /\ pc' = "list"
    /\ UNCHANGED <<thread_id, created_thread, run_id, pollVars, passVars,
                   file_to_link, envVars, calls>>

\* A turn that cancels the run upstream when its budget is exhausted.
AfterPoll_CancelOnTimeout ==
    /\ pc = "polled"
    /\ IF TimedOut(iterations)
       THEN /\ error' = Exc("Request timeout - assistant took too long to respond", "")
            /\ calls' = Append(calls, Call("runs.cancel", thread_id[1], <<>>))
            /\ pc' = "raised"
       ELSE IF run_status.status = "failed"
       THEN /\ error' = Exc("Run failed: ", run_status.last_error)
            /\ calls' = calls
            /\ pc' = "raised"
       ELSE IF run_status.status # "completed"
       THEN /\ error' = Exc("Run ended with unexpected status: ", run_status.status)
            /\ calls' = calls
            /\ pc' = "raised"
       ELSE /\ error' = error
            /\ calls' = calls
            /\ pc' = "list"
    /\ UNCHANGED <<thread_id, created_thread, run_id, pollVars, passVars,
                   file_to_link, envVars>>

AfterPoll ==
    /\ pc = "polled"
    /\ IF TimedOut(iterations)
       THEN /\ error' = Exc("Request timeout - assistant took too long to respond", "")
            /\ pc' = "raised"
       ELSE IF run_status.status = "failed"
       THEN /\ error' = Exc("Run failed: ", run_status.last_error)
            /\ pc' = "raised"
       ELSE IF run_status.status # "completed"
       THEN /\ error' = Exc("Run ended with unexpected status: ", run_status.status)
            /\ pc' = "raised"
       ELSE /\ error' = error
            /\ pc' = "list"
    /\ UNCHANGED <<thread_id, created_thread, run_id, pollVars, passVars,
                   file_to_link, envVars, calls>>

(***************************************************************************)
(* chat, lines 147-169: the assistant message of this run and its text.    *)
(***************************************************************************)
\* A selection by the author alone.
IsMatch_AnyAssistant(m, rid) == m.role = "assistant"

\* m.role == "assistant" and getattr(m, 'run_id', None) == run.id
IsMatch(m, rid) == m.role = "assistant" /\ m.run_id = Some(rid)

\* next((m for m in messages.data if ...), None)
FirstMatch(data, rid) ==
    IF \E i \in 1..Len(data) : IsMatch(data[i], rid)
    THEN Some(data[CHOOSE i \in 1..Len(data) :
                     /\ IsMatch(data[i], rid)
                     /\ \A j \in 1..(i - 1) : ~IsMatch(data[j], rid)])
    ELSE None

\* hasattr(text_content, 'text') of the first content block
HasText(content) == content # <<>> /\ content[1].type = "text"

\* Lines 148-169 on the message list data.
SelectMessage(data) ==
    LET found == FirstMatch(data, run_id)
    IN  /\ reply_has_match' =
             Some(\E i \in 1..Len(data) :
                     data[i].role = "assistant" /\ data[i].run_id = Some(run_id))
        /\ IF found = None
           THEN /\ error' = Exc("No assistant response found", "")
                /\ pc' = "raised"
                /\ UNCHANGED passVars
           ELSE /\ error' = error
                /\ assistant_message' = found
                /\ citations' = <<>>
                /\ file_cache' = EmptyDict
                /\ citation_mapping' = <<>>
                /\ seen_files' = EmptyDict
                /\ idx' = 0
                /\ lookup_failed' = {}
                /\ IF HasText(found[1].content)
                   THEN /\ response_text' = found[1].content[1].value
                        /\ annotations' = found[1].content[1].annotations
                        /\ pc' = "cite"
                   ELSE /\ response_text' = <<>>
                        /\ annotations' = <<>>
                        /\ pc' = "return"

ListMessagesOf(texts, lists) ==
    /\ pc = "list"
    /\ calls' = Append(calls, Call("messages.list", thread_id[1], <<>>))
    /\ \/ \E data \in ListsWithout : SelectMessage(data)
       \/ \E c \in NoTextContents :
            \E data \in ListsAround(run_id, c) : SelectMessage(data)
       \/ \E t \in texts, l \in lists :
            \E data \in ListsAround(run_id, TextContent(t, l)) : SelectMessage(data)
    /\ UNCHANGED <<thread_id, created_thread, run_id, pollVars, file_to_link,
                   req_thread_id, http_response, loadVars, concVars,
                   driveVars>>

(***************************************************************************)
(* chat, lines 170-220: one annotation of the citation pass.               *)
(***************************************************************************)
\* The Citation appended for a newly accepted file.
NewCitation(file_id, file_name, new_marker, download_link) ==
    [file_id |-> file_id, file_name |-> file_name, quote |-> "",
     text |-> new_marker, download_link |-> download_link]

\* Lines 186-220, once the file name is known.
Reconcile(a, file_name) ==
    LET original_marker == a.text
        download_link == get_download_link(file_name)
    IN  IF HasValidLink(download_link)
        THEN IF AlreadySeen(a.file_id, seen_files)
             THEN /\ citation_mapping' =
                        DictSet(citation_mapping, original_marker, seen_files[a.file_id])
                  /\ UNCHANGED <<seen_files, citations>>
             ELSE LET new_marker == DisplayMarker(NewNumber(citations))
                  IN  /\ citation_mapping' =
                            DictSet(citation_mapping, original_marker, new_marker)
                      /\ seen_files' = (a.file_id :> new_marker) @@ seen_files
                      /\ citations' =
                            Append(citations,
                                   NewCitation(a.file_id, file_name, new_marker,
                                               download_link[1]))
        ELSE /\ citation_mapping' = DictSet(citation_mapping, original_marker, <<>>)
             /\ UNCHANGED <<seen_files, citations>>

\* A pass that never finds a file in its cache.
Cached_Never(file_id, cache) == FALSE

\* Lines 186-220 as a function of the locals st.
Reconciled(st, a, file_name) ==
    LET original_marker == a.text
        download_link == get_download_link(file_name)
    IN  IF HasValidLink(download_link)
        THEN IF AlreadySeen(a.file_id, st.seen_files)
             THEN [st EXCEPT !.citation_mapping =
                       DictSet(st.citation_mapping, original_marker,
                               st.seen_files[a.file_id])]
             ELSE LET new_marker == DisplayMarker(NewNumber(st.citations))
                  IN  [st EXCEPT
                         !.citation_mapping =
                             DictSet(st.citation_mapping, original_marker, new_marker),
                         !.seen_files = (a.file_id :> new_marker) @@ st.seen_files,
                         !.citations =
                             Append(st.citations,
                                    NewCitation(a.file_id, file_name, new_marker,
                                                download_link[1]))]
        ELSE [st EXCEPT !.citation_mapping =
                  DictSet(st.citation_mapping, original_marker, <<>>)]

\* if file_citation.file_id in file_cache
Cached(file_id, cache) == file_id \in DOMAIN cache

CiteCached ==
    /\ pc = "cite"
    /\ idx < Len(annotations)
    /\ annotations[idx + 1].type = "file_citation"
    /\ Cached(annotations[idx + 1].file_id, file_cache)
    /\ Reconcile(annotations[idx + 1], file_cache[annotations[idx + 1].file_id])
    /\ idx' = idx + 1
    /\ UNCHANGED <<pc, thread_id, created_thread, run_id, pollVars, error,
                   assistant_message, annotations, response_text, file_cache,
                   file_to_link, envVars, calls, lookup_failed>>

CiteLookup ==
    /\ pc = "cite"
    /\ idx < Len(annotations)
    /\ annotations[idx + 1].type = "file_citation"
    /\ ~Cached(annotations[idx + 1].file_id, file_cache)
    /\ \E r \in RetrieveOutcomes :
         LET fid == annotations[idx + 1].file_id
             file_name == IF r.ok THEN r.filename ELSE FallbackName(fid)
         IN  /\ file_cache' = (fid :> file_name) @@ file_cache
             /\ lookup_failed' = IF r.ok THEN lookup_failed ELSE lookup_failed \cup {fid}
             /\ calls' = Append(calls, Call("files.retrieve", "", fid))
             /\ Reconcile(annotations[idx + 1], file_name)
    /\ idx' = idx + 1
    /\ UNCHANGED <<pc, thread_id, created_thread, run_id, pollVars, error,
                   assistant_message, annotations, response_text, file_to_link, envVars>>

\* A pass that deletes the marker of an annotation without a file citation.
CiteSkip_DeletesMarker ==
    /\ pc = "cite"
    /\ idx < Len(annotations)
    /\ annotations[idx + 1].type # "file_citation"
    /\ idx' = idx + 1
    /\ citation_mapping' = DictSet(citation_mapping, annotations[idx + 1].text, <<>>)
    /\ UNCHANGED <<pc, thread_id, created_thread, run_id, pollVars, error,
                   assistant_message, annotations, response_text, file_cache,
                   seen_files, citations, file_to_link, envVars,
                   calls, lookup_failed>>

\* An annotation without a file_citation attribute.
CiteSkip ==
    /\ pc = "cite"
    /\ idx < Len(annotations)
    /\ annotations[idx + 1].type # "file_citation"
    /\ idx' = idx + 1
    /\ UNCHANGED <<pc, thread_id, created_thread, run_id, pollVars, error,
                   assistant_message, annotations, response_text, file_cache,
                   citation_mapping, seen_files, citations, file_to_link, envVars,
                   calls, lookup_failed>>

\* Lines 170-220 for one annotation a as a function of the locals st, where
\* r is what files.retrieve answers for the file of a.
PassStep(st, a, r) ==
    IF a.type # "file_citation" THEN st
    ELSE LET file_name ==
                 IF Cached(a.file_id, st.file_cache) THEN st.file_cache[a.file_id]
                 ELSE IF r.ok THEN r.filename
                 ELSE FallbackName(a.file_id)
         IN  Reconciled([st EXCEPT !.file_cache = (a.file_id :> file_name) @@ @],
                        a, file_name)

\* Lines 157-161: the locals of a call.
NewLocals ==
    [file_cache |-> EmptyDict, citation_mapping |-> <<>>,
     seen_files |-> EmptyDict, citations |-> <<>>]

(***************************************************************************)
(* chat, lines 222-232: the rewrite of the text, and the response.         *)
(***************************************************************************)
Rewrite ==
    /\ pc = "cite"
    /\ idx = Len(annotations)
    /\ response_text' = RewriteText(response_text, citation_mapping, Len(citation_mapping))
    /\ pc' = "return"
    /\ UNCHANGED <<thread_id, created_thread, run_id, pollVars, error,
                   assistant_message, annotations, idx, file_cache,
                   citation_mapping, seen_files, citations, file_to_link, envVars,
                   calls, lookup_failed>>

Return ==
    /\ pc = "return"
    /\ pc' = "done"
    /\ UNCHANGED <<thread_id, created_thread, run_id, pollVars, error,
                   passVars, file_to_link, envVars, calls>>

(***************************************************************************)
(* POST /ask, src/main.py lines 73-104: the result of chat becomes the     *)
(* response body, an exception of chat becomes an HTTPException.           *)
(***************************************************************************)
\* An error response without the message of the exception.
ErrorDetail_Generic(e) == "Internal Server Error"

\* str(e) of Exception(f"...{arg}"): the formatted message.
ErrorDetail(e) == e.msg \o e.arg

ask_openai ==
    /\ pc \in {"done", "raised"}
    /\ http_response = None
    /\ IF pc = "done"
       THEN http_response' =
                Some([status_code |-> 200,
                      body |-> [thread_id |-> thread_id[1],
                                assistant_message |-> response_text,
                                citations |-> citations]])
       ELSE http_response' =
                Some([status_code |-> 500, detail |-> ErrorDetail(error[1])])
    /\ UNCHANGED <<pc, thread_id, created_thread, run_id, pollVars, error,
                   passVars, file_to_link, calls, req_thread_id,
                   reply_has_match, loadVars, concVars, driveVars>>

(***************************************************************************)
(* SourceLinker.__init__, lines 38-69.                                     *)
(***************************************************************************)
chatVars == <<pc, thread_id, created_thread, run_id, pollVars, error, passVars,
              calls, req_thread_id, http_response, reply_has_match>>

\* Lines 40-49 and 60-69: open and parse the file, then enter the loop.
LoadFile ==
    /\ lpc = "open"
    /\ IF document.kind \in {"missing", "invalid_json"}
       THEN /\ reference_data' = Some(JsonArray(<<>>))
            /\ lpc' = "loaded"
            /\ load_error' = None
       ELSE /\ reference_data' = Some(document)
            /\ IF Iterable(document)
               THEN /\ lpc' = "loop"
                    /\ load_error' = None
               ELSE /\ lpc' = "raised"
                    /\ load_error' = Some("TypeError")
    /\ file_to_link' = EmptyDict
    /\ file_to_title' = EmptyDict
    /\ li' = 0
    /\ UNCHANGED <<chatVars, document, concVars, driveVars>>

\* Lines 49-56: one item of the loop.
LoadItem ==
    /\ lpc = "loop"
    /\ li < Len(reference_data[1].items)
    /\ LET item == reference_data[1].items[li + 1]
       IN  IF ValidItem(item)
           THEN IF Hashable(item)
                THEN /\ file_to_link' = (item.file :> item.link) @@ file_to_link
                     /\ file_to_title' = (item.file :> item.title) @@ file_to_title
                     /\ li' = li + 1
                     /\ UNCHANGED <<lpc, load_error>>
                ELSE /\ lpc' = "raised"
                     /\ load_error' = Some("TypeError")
                     /\ UNCHANGED <<file_to_link, file_to_title, li>>
           ELSE /\ li' = li + 1
                /\ UNCHANGED <<file_to_link, file_to_title, lpc, load_error>>
    /\ UNCHANGED <<chatVars, document, reference_data, concVars, driveVars>>

\* Line 58: the loop is over and the constructor returns.
LoadEnd ==
    /\ lpc = "loop"
    /\ li = Len(reference_data[1].items)
    /\ lpc' = "loaded"
    /\ UNCHANGED <<chatVars, document, reference_data, file_to_link,
                   file_to_title, li, load_error, concVars, driveVars>>

(***************************************************************************)
(* Two calls of chat on one OpenAIService, each from the message list on   *)
(* (lines 147-232), interleaved step by step.                              *)
(***************************************************************************)
\* All calls sharing one cache, as an attribute of the service would be.
CacheOf_Shared(t) == 1

\* file_cache = {} at line 159 binds a dict of the call's own.
CacheOf(t) == t

\* The locals of turn t, with the cache it uses.
LocalsOf(t) ==
    [file_cache |-> file_caches[CacheOf(t)],
     citation_mapping |-> frames[t].citation_mapping,
     seen_files |-> frames[t].seen_files,
     citations |-> frames[t].citations]

\* Lines 147-169: the message of the run, and new locals.
TurnList(t) ==
    /\ frames[t].pc = "list"
    /\ frames' = [frames EXCEPT ![t] =
                     [pc |-> "cite", idx |-> 0,
                      response_text |-> upstream[t].text,
                      annotations |-> upstream[t].annotations,
                      citation_mapping |-> NewLocals.citation_mapping,
                      seen_files |-> NewLocals.seen_files,
                      citations |-> NewLocals.citations]]
    /\ file_caches' = [file_caches EXCEPT ![CacheOf(t)] = NewLocals.file_cache]
    /\ UNCHANGED <<chatVars, loadVars, driveVars, file_to_link, upstream>>

\* Lines 170-220: one annotation.
TurnCite(t) ==
    /\ frames[t].pc = "cite"
    /\ frames[t].idx < Len(frames[t].annotations)
    /\ LET a == frames[t].annotations[frames[t].idx + 1]
           r == IF a.type = "file_citation" THEN upstream[t].names[a.file_id]
                ELSE [ok |-> FALSE, filename |-> <<>>]
           new == PassStep(LocalsOf(t), a, r)
       IN  /\ frames' = [frames EXCEPT ![t] =
                            [@ EXCEPT !.idx = @ + 1,
                                      !.citation_mapping = new.citation_mapping,
                                      !.seen_files = new.seen_files,
                                      !.citations = new.citations]]
           /\ file_caches' = [file_caches EXCEPT ![CacheOf(t)] = new.file_cache]
    /\ UNCHANGED <<chatVars, loadVars, driveVars, file_to_link, upstream>>

\* Lines 222-224: the rewrite.
TurnRewrite(t) ==
    /\ frames[t].pc = "cite"
    /\ frames[t].idx = Len(frames[t].annotations)
    /\ frames' = [frames EXCEPT ![t] =
                     [@ EXCEPT !.pc = "return",
                               !.response_text =
                                   RewriteText(@, frames[t].citation_mapping,
                                               Len(frames[t].citation_mapping))]]
    /\ UNCHANGED <<chatVars, loadVars, driveVars, file_to_link, upstream, file_caches>>

\* Lines 228-232: the response.
TurnReturn(t) ==
    /\ frames[t].pc = "return"
    /\ frames' = [frames EXCEPT ![t] = [@ EXCEPT !.pc = "done"]]
    /\ UNCHANGED <<chatVars, loadVars, driveVars, file_to_link, upstream, file_caches>>

(***************************************************************************)
(* DriveSearchService.buscar_en_carpeta, src/drive_service.py lines        *)
(* 160-212.                                                                *)
(***************************************************************************)
\* Lines 184-197: the formatted file.
Formatted(archivo) ==
    [id |-> archivo.id,
     name |-> get_title(archivo.name),
     file_name |-> archivo.name,
     view_link |-> Get(archivo, "webViewLink"),
     download_link |-> "https://drive.google.com/file/d/" \o archivo.id \o "/view",
     mime_type |-> Get(archivo, "mimeType"),
     size |-> Get(archivo, "size"),
     modified_time |-> Get(archivo, "modifiedTime")]

\* The loop of lines 183-197 over the files of one page.
RECURSIVE FormatAll(_, _)
FormatAll(archivos, n) ==
    IF n = 0 THEN <<>>
    ELSE Append(FormatAll(archivos, n - 1), Formatted(archivos[n]))

\* A failure that returns what has been collected.
OnPageError_Partial(collected) == collected

\* Lines 207-212: return [] for an HttpError and for any other exception.
OnPageError(collected) == <<>>

\* results.get('nextPageToken', None)
NextPageToken(results) == Get(results, "nextPageToken")

\* Lines 165-205: one turn of the loop whose request succeeds, and the
\* return when the page has no token.
DrivePage ==
    /\ dpc = "request"
    /\ drive_requests' = Append(drive_requests, page_token)
    /\ LET results == PageFor(drive_pages, page_token)
           archivos == IF "files" \in DOMAIN results THEN results.files ELSE <<>>
           collected == archivos_formateados \o FormatAll(archivos, Len(archivos))
       IN  /\ archivos_formateados' = collected
           /\ page_token' = NextPageToken(results)
           /\ IF NextPageToken(results) = None
              THEN /\ dpc' = "returned"
                   /\ drive_result' = Some(collected)
              ELSE /\ dpc' = "request"
                   /\ drive_result' = drive_result
    /\ UNCHANGED <<chatVars, loadVars, concVars, file_to_link, drive_pages>>

\* Lines 172-177 and 207-212: the request raises.
DrivePageFails ==
    /\ dpc = "request"
    /\ drive_requests' = Append(drive_requests, page_token)
    /\ dpc' = "failed"
    /\ drive_result' = Some(OnPageError(archivos_formateados))
    /\ UNCHANGED <<chatVars, loadVars, concVars, file_to_link, drive_pages,
                   page_token, archivos_formateados>>

\* The turn with the small contents, and the pass with all of them.
ListMessages == ListMessagesOf(TurnTexts, TurnLists)

ListMessagesPass == ListMessagesOf(PassTexts, PassLists)

Next ==
    \/ CreateThread
    \/ ReuseThread
    \/ SendMessage
    \/ CreateRun
    \/ PollOnce
    \/ Sleep
    \/ AfterPoll
    \/ ListMessages
    \/ CiteCached
    \/ CiteLookup
    \/ CiteSkip
    \/ Rewrite
    \/ Return
    \/ ask_openai

\* The whole chat turn.
Spec == Init /\ [][Next]_vars

(***************************************************************************)
(* The citation pass on its own: a turn on a new thread whose run was      *)
(* completed at the first status check, about to list the messages.        *)
(***************************************************************************)
InitPass ==
    /\ pc = "list"
    /\ thread_id = Some("thread_new")
    /\ req_thread_id = None
    /\ http_response = None
    /\ reply_has_match = None
    /\ lpc = "loaded"
    /\ document = JsonArray(ReferenceData)
    /\ reference_data = Some(JsonArray(ReferenceData))
    /\ file_to_title = LoadTitles(ReferenceData, Len(ReferenceData))
    /\ li = Len(ReferenceData)
    /\ load_error = None
    /\ upstream = NoTurns
    /\ frames = NoTurns
    /\ file_caches = NoTurns
    /\ dpc = "idle"
    /\ drive_pages = <<>>
    /\ page_token = None
    /\ archivos_formateados = <<>>
    /\ drive_requests = <<>>
    /\ drive_result = None
    /\ created_thread = TRUE
    /\ run_id = "run_1"
    /\ iterations = 0
    /\ checks = 1
    /\ waits = 0
    /\ run_status = [status |-> "completed", last_error |-> "None"]
    /\ error = None
    /\ assistant_message = None
    /\ annotations = <<>>
    /\ idx = 0
    /\ response_text = <<>>
    /\ file_cache = EmptyDict
    /\ citation_mapping = <<>>
    /\ seen_files = EmptyDict
    /\ citations = <<>>
    /\ file_to_link = LoadLinks(ReferenceData, Len(ReferenceData))
    /\ calls = << Call("threads.create", "", <<>>),
                  Call("messages.create", "thread_new", <<>>),
                  Call("runs.create", "thread_new", <<>>),
                  Call("runs.retrieve", "thread_new", <<>>) >>
    /\ lookup_failed = {}

NextPass ==
    \/ ListMessagesPass
    \/ CiteCached
    \/ CiteLookup
    \/ CiteSkip
    \/ Rewrite
    \/ Return

SpecPass == InitPass /\ [][NextPass]_vars

(***************************************************************************)
(* The construction of the SourceLinker on any reference file, before any  *)
(* chat turn.                                                              *)
(***************************************************************************)
InitLoad ==
    /\ lpc = "open"
    /\ document \in Documents
    /\ reference_data = None
    /\ file_to_link = EmptyDict
    /\ file_to_title = EmptyDict
    /\ li = 0
    /\ load_error = None
    /\ upstream = NoTurns
    /\ frames = NoTurns
    /\ file_caches = NoTurns
    /\ dpc = "idle"
    /\ drive_pages = <<>>
    /\ page_token = None
    /\ archivos_formateados = <<>>
    /\ drive_requests = <<>>
    /\ drive_result = None
    /\ pc = "thread"
    /\ thread_id = None
    /\ created_thread = FALSE
    /\ run_id = ""
    /\ iterations = 0
    /\ checks = 0
    /\ waits = 0
    /\ run_status = [status |-> "", last_error |-> "None"]
    /\ error = None
    /\ assistant_message = None
    /\ annotations = <<>>
    /\ idx = 0
    /\ response_text = <<>>
    /\ file_cache = EmptyDict
    /\ citation_mapping = <<>>
    /\ seen_files = EmptyDict
    /\ citations = <<>>
    /\ calls = <<>>
    /\ lookup_failed = {}
    /\ req_thread_id = None
    /\ http_response = None
    /\ reply_has_match = None

NextLoad ==
    \/ LoadFile
    \/ LoadItem
    \/ LoadEnd

SpecLoad == InitLoad /\ [][NextLoad]_vars

(***************************************************************************)
(* Two turns whose runs were completed, each about to list its messages,   *)
(* on one service with the loaded index.                                   *)
(***************************************************************************)
InitTwo ==
    /\ upstream \in [TurnIds -> [text : ConcTexts, annotations : ConcLists,
                                  names : ConcNames]]
    /\ frames = [t \in TurnIds |->
                   [pc |-> "list", idx |-> 0, response_text |-> <<>>,
                    annotations |-> <<>>, citation_mapping |-> <<>>,
                    seen_files |-> EmptyDict, citations |-> <<>>]]
    /\ file_caches = [t \in TurnIds |-> EmptyDict]
    /\ dpc = "idle"
    /\ drive_pages = <<>>
    /\ page_token = None
    /\ archivos_formateados = <<>>
    /\ drive_requests = <<>>
    /\ drive_result = None
    /\ file_to_link = LoadLinks(ReferenceData, Len(ReferenceData))
    /\ lpc = "loaded"
    /\ document = JsonArray(ReferenceData)
    /\ reference_data = Some(JsonArray(ReferenceData))
    /\ file_to_title = LoadTitles(ReferenceData, Len(ReferenceData))
    /\ li = Len(ReferenceData)
    /\ load_error = None
    /\ pc = "thread"
    /\ thread_id = None
    /\ created_thread = FALSE
    /\ run_id = ""
    /\ iterations = 0
    /\ checks = 0
    /\ waits = 0
    /\ run_status = [status |-> "", last_error |-> "None"]
    /\ error = None
    /\ assistant_message = None
    /\ annotations = <<>>
    /\ idx = 0
    /\ response_text = <<>>
    /\ file_cache = EmptyDict
    /\ citation_mapping = <<>>
    /\ seen_files = EmptyDict
    /\ citations = <<>>
    /\ calls = <<>>
    /\ lookup_failed = {}
    /\ req_thread_id = None
    /\ http_response = None
    /\ reply_has_match = None

NextTwo ==
    \E t \in TurnIds :
        \/ TurnList(t)
        \/ TurnCite(t)
        \/ TurnRewrite(t)
        \/ TurnReturn(t)

SpecTwo == InitTwo /\ [][NextTwo]_vars

(***************************************************************************)
(* A call of buscar_en_carpeta on any pages of results.                    *)
(***************************************************************************)
InitDrive ==
    /\ dpc = "request"
    /\ drive_pages \in DrivePageLists(MaxPages)
    /\ page_token = None
    /\ archivos_formateados = <<>>
    /\ drive_requests = <<>>
    /\ drive_result = None
    /\ upstream = NoTurns
    /\ frames = NoTurns
    /\ file_caches = NoTurns
    /\ file_to_link = LoadLinks(ReferenceData, Len(ReferenceData))
    /\ lpc = "loaded"
    /\ document = JsonArray(ReferenceData)
    /\ reference_data = Some(JsonArray(ReferenceData))
    /\ file_to_title = LoadTitles(ReferenceData, Len(ReferenceData))
    /\ li = Len(ReferenceData)
    /\ load_error = None
    /\ pc = "thread"
    /\ thread_id = None
    /\ created_thread = FALSE
    /\ run_id = ""
    /\ iterations = 0
    /\ checks = 0
    /\ waits = 0
    /\ run_status = [status |-> "", last_error |-> "None"]
    /\ error = None
    /\ assistant_message = None
    /\ annotations = <<>>
    /\ idx = 0
    /\ response_text = <<>>
    /\ file_cache = EmptyDict
    /\ citation_mapping = <<>>
    /\ seen_files = EmptyDict
    /\ citations = <<>>
    /\ calls = <<>>
    /\ lookup_failed = {}
    /\ req_thread_id = None
    /\ http_response = None
    /\ reply_has_match = None

NextDrive ==
    \/ DrivePage
    \/ DrivePageFails

SpecDrive == InitDrive /\ [][NextDrive]_vars

(***************************************************************************)
(* Vocabulary of the properties, stated on the inputs of the pass and not  *)
(* through the operators of the model.                                     *)
(***************************************************************************)
\* The raw text of the selected assistant message.
RawText ==
    IF assistant_message # None /\ assistant_message[1].content # <<>>
       /\ assistant_message[1].content[1].type = "text"
    THEN assistant_message[1].content[1].value
    ELSE <<>>

\* The rewrite step has run.
Rewritten == pc \in {"return", "done"} /\ RawText # <<>>

\* The file name has a non-empty download link in the reference index.
Linked(name) == name \in DOMAIN file_to_link /\ file_to_link[name] # ""

\* Annotation i is a file citation that the pass has processed.
CitesFile(i) == i \in 1..idx /\ annotations[i].type = "file_citation"

ResolvedName(i) == file_cache[annotations[i].file_id]

\* Annotation i has been processed and its file has a usable link.
AcceptedAt(i) == CitesFile(i) /\ Linked(ResolvedName(i))

\* Annotation i has been processed and its file has no usable link.
UnlinkedAt(i) == CitesFile(i) /\ ~Linked(ResolvedName(i))

AcceptedIds == {annotations[i].file_id : i \in {j \in 1..idx : AcceptedAt(j)}}

\* Annotation i is the first accepted annotation of its file identifier.
FirstAcceptedAt(i) ==
    /\ AcceptedAt(i)
    /\ \A j \in 1..(i - 1) :
         ~(AcceptedAt(j) /\ annotations[j].file_id = annotations[i].file_id)

\* The accepted file identifiers among the first n annotations, in the order
\* of first acceptance.
RECURSIVE AcceptedOrder(_)
AcceptedOrder(n) ==
    IF n = 0 THEN <<>>
    ELSE IF FirstAcceptedAt(n)
         THEN Append(AcceptedOrder(n - 1), annotations[n].file_id)
         ELSE AcceptedOrder(n - 1)

\* "[i]" for a one-digit i.
Bracketed(i) == <<"[", Digits[i + 1], "]">>

\* The number of occurrences of m in t that str.replace finds from p on.
RECURSIVE CountFrom(_, _, _)
CountFrom(t, m, p) ==
    IF p > Len(t) \/ m = <<>> THEN 0
    ELSE IF p + Len(m) - 1 <= Len(t) /\ SubSeq(t, p, p + Len(m) - 1) = m
         THEN 1 + CountFrom(t, m, p + Len(m))
         ELSE CountFrom(t, m, p + 1)

Count(t, m) == CountFrom(t, m, 1)

(***************************************************************************)
(* C1.  In every step of the citation pass the citations list has as many  *)
(* entries as there are distinct accepted file identifiers, its i-th entry *)
(* carries the display marker "[i]", and the entries stand in the order in *)
(* which the identifiers were first accepted in the annotation sequence.   *)
(***************************************************************************)
Thm_C1_DenseNumbering ==
    /\ Len(citations) = Cardinality(AcceptedIds)
    /\ \A i \in 1..Len(citations) : citations[i].text = Bracketed(i)
    /\ [i \in 1..Len(citations) |-> citations[i].file_id] = AcceptedOrder(idx)

\* Two files numbered in annotation order although the marker of the second
\* stands before the marker of the first in the raw text.
Wit_C1_TwoNumbered ==
    /\ pc = "done"
    /\ Len(citations) = 2
    /\ RawText = annotations[2].text \o annotations[1].text
    /\ citations[1].text = <<"[", "1", "]">>
    /\ citations[2].text = <<"[", "2", "]">>

(***************************************************************************)
(* C2.  When the pass is over the citations hold exactly one entry for     *)
(* each distinct file identifier among the annotations whose resolved file *)
(* name has a non-empty download link in the reference index, and no file  *)
(* identifier occurs in two citations.                                     *)
(***************************************************************************)
Thm_C2_OnePerLinkedFile ==
    pc \in {"return", "done"} =>
        /\ {citations[i].file_id : i \in 1..Len(citations)} = AcceptedIds
        /\ \A i, j \in 1..Len(citations) :
             citations[i].file_id = citations[j].file_id => i = j

\* Two annotations of one linked file, one citation.
Wit_C2_Deduplicated ==
    /\ pc = "done"
    /\ Len(annotations) = 2
    /\ AcceptedAt(1) /\ AcceptedAt(2)
    /\ annotations[1].file_id = annotations[2].file_id
    /\ Len(citations) = 1

(***************************************************************************)
(* C3.  If an accepted file identifier appears in annotations whose marker *)
(* strings differ from the marker string of every other annotation, then   *)
(* in the final text every occurrence of each of those markers has been    *)
(* replaced by the single display marker of that file: the final text      *)
(* holds the display marker at least as often as the raw text holds the    *)
(* marker.                                                                 *)
(***************************************************************************)
\* The marker string of annotation i is the marker string of no other
\* annotation.
OwnMarker(i) ==
    \A j \in 1..Len(annotations) : j # i => annotations[j].text # annotations[i].text

\* Every annotation of the file of annotation i has a marker of its own.
FileHasOwnMarkers(i) ==
    \A j \in 1..Len(annotations) :
        annotations[j].file_id = annotations[i].file_id => OwnMarker(j)

CE_C3_AllMarkersBecomeDisplayMarker ==
    Rewritten =>
        \A i \in 1..Len(annotations) :
            (AcceptedAt(i) /\ FileHasOwnMarkers(i)) =>
                Count(response_text, seen_files[annotations[i].file_id])
                    >= Count(RawText, annotations[i].text)

(***************************************************************************)
(* C4.  An annotation whose resolved file name has no entry or an empty    *)
(* link in the reference index never produces a citation: every citation   *)
(* has a non-empty download_link, which is the link of the reference index *)
(* for the citation's file_name, and no citation carries the file          *)
(* identifier of an annotation without a usable link.                      *)
(***************************************************************************)
Thm_C4_LinkGating ==
    /\ \A i \in 1..Len(citations) :
         /\ citations[i].download_link # ""
         /\ citations[i].file_name \in DOMAIN file_to_link
         /\ citations[i].download_link = file_to_link[citations[i].file_name]
    /\ \A i \in 1..idx :
         UnlinkedAt(i) =>
            \A c \in 1..Len(citations) : citations[c].file_id # annotations[i].file_id

\* A file with an empty link and a file with no entry were both passed over,
\* no citation was made.
Wit_C4_EmptyAndMissingLink ==
    /\ pc = "done"
    /\ Len(annotations) = 2
    /\ UnlinkedAt(1) /\ ResolvedName(1) = Name_C
    /\ UnlinkedAt(2) /\ ResolvedName(2) = Name_B
    /\ citations = <<>>

(***************************************************************************)
(* C5.  For an annotation whose resolved file name has no entry in the     *)
(* reference index, the original marker is deleted from the output text:   *)
(* every occurrence of the marker string in the raw text is removed and    *)
(* nothing is inserted in its place.  Stated for the texts in which no     *)
(* other marker string of the pass occurs, before or after the removal,    *)
(* where the final text is then the raw text without the occurrences of    *)
(* the marker.                                                             *)
(***************************************************************************)
\* t without the occurrences of m, read off the text from position p on.
RECURSIVE Without(_, _, _)
Without(t, m, p) ==
    IF p > Len(t) THEN <<>>
    ELSE IF p + Len(m) - 1 <= Len(t) /\ SubSeq(t, p, p + Len(m) - 1) = m
         THEN Without(t, m, p + Len(m))
         ELSE <<t[p]>> \o Without(t, m, p + 1)

\* No marker string other than that of annotation i occurs in the raw text,
\* nor in the raw text without the marker of annotation i.
OnlyMarkerInText(i) ==
    \A j \in 1..Len(annotations) :
        (CitesFile(j) /\ annotations[j].text # annotations[i].text) =>
            /\ Count(RawText, annotations[j].text) = 0
            /\ Count(Without(RawText, annotations[i].text, 1), annotations[j].text) = 0

CE_C5_UnlinkedMarkerDeleted ==
    Rewritten =>
        \A i \in 1..Len(annotations) :
            (UnlinkedAt(i) /\ ResolvedName(i) \notin DOMAIN file_to_link
             /\ OnlyMarkerInText(i)) =>
                response_text = Without(RawText, annotations[i].text, 1)

(***************************************************************************)
(* C6.  Text fidelity: every character of the raw text that is not part of *)
(* an occurrence of an original marker string appears unchanged and in the *)
(* same relative order in the final text.                                  *)
(***************************************************************************)
OriginalMarkers == {annotations[i].text : i \in {j \in 1..Len(annotations) : CitesFile(j)}}

\* Position p of the raw text lies in an occurrence of an original marker.
InMarker(p) ==
    \E m \in OriginalMarkers, q \in 1..p :
        /\ q + Len(m) - 1 <= Len(RawText)
        /\ SubSeq(RawText, q, q + Len(m) - 1) = m
        /\ p <= q + Len(m) - 1

\* The characters of the raw text outside every marker, from position p on.
RECURSIVE OutsideMarkers(_)
OutsideMarkers(p) ==
    IF p > Len(RawText) THEN <<>>
    ELSE IF InMarker(p) THEN OutsideMarkers(p + 1)
         ELSE <<RawText[p]>> \o OutsideMarkers(p + 1)

\* u[i..] can be read in t[j..] in order, skipping characters of t.
RECURSIVE IsSubsequenceFrom(_, _, _, _)
IsSubsequenceFrom(u, t, i, j) ==
    IF i > Len(u) THEN TRUE
    ELSE IF j > Len(t) THEN FALSE
         ELSE IF u[i] = t[j] THEN IsSubsequenceFrom(u, t, i + 1, j + 1)
              ELSE IsSubsequenceFrom(u, t, i, j + 1)

CE_C6_TextOutsideMarkersKept ==
    Rewritten => IsSubsequenceFrom(OutsideMarkers(1), response_text, 1, 1)

(***************************************************************************)
(* C7.  A failed file-metadata lookup does not fail the pass: the file     *)
(* name becomes "Archivo " followed by the last 8 characters of the        *)
(* identifier, no exception leaves chat, the pass goes on with the next    *)
(* annotation, and the annotation ends with a citation when the index has  *)
(* a link under the fallback name and with a deletion mapping otherwise.   *)
(***************************************************************************)
\* The last min(8, Len(s)) characters of s.
Tail8(s) ==
    LET k == IF Len(s) < 8 THEN Len(s) ELSE 8
    IN  [i \in 1..k |-> s[Len(s) - k + i]]

\* The rewrite table maps the marker m to the replacement r.
MapsTo(m, r) == \E e \in 1..Len(citation_mapping) : citation_mapping[e] = <<m, r>>

Thm_C7_ResolverFallback ==
    /\ \A f \in lookup_failed :
         f \in DOMAIN file_cache /\ file_cache[f] = Str_Archivo \o Tail8(f)
    /\ lookup_failed # {} => (error = None /\ pc \in {"cite", "return", "done"})
    /\ (lookup_failed # {} /\ pc = "cite") =>
         IF idx < Len(annotations)
         THEN ENABLED (CiteCached \/ CiteLookup \/ CiteSkip)
         ELSE ENABLED Rewrite
    /\ (idx >= 1 /\ CitesFile(idx) /\ annotations[idx].file_id \in lookup_failed) =>
         LET fid == annotations[idx].file_id
             name == Str_Archivo \o Tail8(fid)
         IN  IF Linked(name)
             THEN \E c \in 1..Len(citations) :
                     /\ citations[c].file_id = fid
                     /\ citations[c].file_name = name
                     /\ MapsTo(annotations[idx].text, citations[c].text)
             ELSE /\ MapsTo(annotations[idx].text, <<>>)
                  /\ \A c \in 1..Len(citations) : citations[c].file_id # fid

\* Both lookups failed: the first annotation was deleted, the pass went on
\* and the second was cited under its fallback name.
Wit_C7_FallbackBothWays ==
    /\ pc = "done"
    /\ lookup_failed = {FileId1, FileId2}
    /\ annotations[1].file_id = FileId2
    /\ annotations[2].file_id = FileId1
    /\ Len(citations) = 1
    /\ citations[1].file_name = Str_Archivo \o <<"a", "b", "c", "d", "e", "f", "g", "1">>

(***************************************************************************)
(* C8.  chat makes at most 60 run-status checks in a turn; after a status  *)
(* other than completed, failed or cancelled it goes on polling while the  *)
(* budget lasts; and when all 60 checks returned such a status the turn    *)
(* fails with the timeout failure, which is raised in that case only and   *)
(* is not the run-failed failure.                                          *)
(***************************************************************************)
StatusChecksMade == Cardinality({i \in 1..Len(calls) : calls[i].op = "runs.retrieve"})

NonTerminal == run_status.status \notin {"completed", "failed", "cancelled"}

TimeoutMessage == "Request timeout - assistant took too long to respond"

Thm_C8_PollBudget ==
    /\ checks <= 60
    /\ StatusChecksMade = checks
    /\ (checks \in 1..59 /\ NonTerminal) => pc \in {"sleep", "poll"}
    /\ (checks = 60 /\ NonTerminal) => pc \in {"sleep", "polled", "raised"}
    /\ pc = "poll" => checks < 60
    /\ pc = "raised" =>
         /\ (error[1].msg = TimeoutMessage) <=> (checks = 60 /\ NonTerminal)
         /\ (error[1].msg = "Run failed: ") => run_status.status = "failed"

\* Sixty checks, the last one with a status outside the enumerated five, and
\* the timeout.
Wit_C8_TimedOut ==
    /\ pc = "raised"
    /\ checks = 60
    /\ run_status.status = "requires_action"
    /\ error[1].msg = TimeoutMessage

(***************************************************************************)
(* C9.  If the n-th status check is the first to return a terminal status  *)
(* and that status is completed, chat has made exactly n checks and n - 1  *)
(* waits, polls no more, does not time out (also for n = 60), and resolves *)
(* with the content of the assistant message of that run.                  *)
(***************************************************************************)
Thm_C9_CompletedAtNthCheck ==
    /\ (pc = "poll" /\ checks > 0) =>
         (NonTerminal /\ iterations = checks /\ waits = checks)
    /\ pc = "sleep" =>
         (NonTerminal /\ iterations = checks - 1 /\ waits = checks - 1)
    /\ run_status.status = "completed" =>
         /\ pc \notin {"poll", "sleep"}
         /\ checks \in 1..60
         /\ iterations = checks - 1
         /\ waits = checks - 1
         /\ StatusChecksMade = checks
         /\ pc = "raised" => error[1].msg = "No assistant response found"
    /\ pc = "done" =>
         /\ run_status.status = "completed"
         /\ assistant_message # None
         /\ assistant_message[1].role = "assistant"
         /\ assistant_message[1].run_id = <<run_id>>
         /\ annotations = <<>> => response_text = RawText

\* The run was completed at the sixtieth check and the turn resolved with
\* the text of the message.
Wit_C9_CompletedAtLastCheck ==
    /\ pc = "done"
    /\ checks = 60
    /\ iterations = 59
    /\ waits = 59
    /\ response_text = <<"+">>

(***************************************************************************)
(* C10.  A status check that returns failed or cancelled ends the turn     *)
(* with the run-failed error, which carries the error detail the upstream  *)
(* provided, for failed and cancelled alike.  The code does so for failed; *)
(* a cancelled run ends the turn with the unexpected-status error of line  *)
(* 144, which carries the status and not last_error.                       *)
(***************************************************************************)
CE_C10_RunFailedCarriesDetail ==
    (pc = "raised" /\ run_status.status \in {"failed", "cancelled"}) =>
        error = <<[msg |-> "Run failed: ", arg |-> run_status.last_error]>>

(***************************************************************************)
(* C11.  A thread is created upstream exactly when the request carried no  *)
(* thread id, and at most once; a supplied thread id is the thread of the  *)
(* turn; every upstream call that names a thread (post message, create     *)
(* run, status check, list messages) names that one thread; and the thread *)
(* id of the response body is the thread that was used.                    *)
(***************************************************************************)
\* POST /ask has answered.
Responded == http_response # None

ThreadCalls == {i \in 1..Len(calls) : calls[i].op # "files.retrieve"
                                       /\ calls[i].op # "threads.create"}

ThreadsCreated == Cardinality({i \in 1..Len(calls) : calls[i].op = "threads.create"})

Thm_C11_ThreadIdentity ==
    /\ ThreadsCreated = (IF req_thread_id = None /\ pc # "thread" THEN 1 ELSE 0)
    /\ created_thread <=> (ThreadsCreated = 1)
    /\ req_thread_id # None => thread_id = req_thread_id
    /\ pc # "thread" =>
         /\ thread_id # None
         /\ \A i \in ThreadCalls : calls[i].thread_id = thread_id[1]
    /\ (http_response # None /\ http_response[1].status_code = 200) =>
         /\ http_response[1].body.thread_id = thread_id[1]
         /\ ThreadCalls # {}

\* A turn on the caller's thread that polled twice and answered.
Wit_C11_SuppliedThreadReturned ==
    /\ Responded
    /\ http_response[1].status_code = 200
    /\ req_thread_id = Some("thread_caller")
    /\ http_response[1].body.thread_id = "thread_caller"
    /\ StatusChecksMade = 2
    /\ ThreadsCreated = 0

(***************************************************************************)
(* C12.  The message the citation pass works on is an assistant message    *)
(* whose run id is the run of this turn, and the upstream message list     *)
(* held such a message; when the list held none, chat has failed with the  *)
(* error "No assistant response found", nothing was selected, no text and  *)
(* no citation was produced, and the response is not a success body.       *)
(***************************************************************************)
NoAssistantMessage == "No assistant response found"

Thm_C12_OwnAssistantMessage ==
    /\ assistant_message # None =>
         /\ assistant_message[1].role = "assistant"
         /\ assistant_message[1].run_id = Some(run_id)
         /\ reply_has_match = Some(TRUE)
    /\ reply_has_match = Some(FALSE) =>
         /\ pc = "raised"
         /\ error # None /\ error[1].msg = NoAssistantMessage
         /\ assistant_message = None
         /\ response_text = <<>> /\ citations = <<>>
         /\ http_response # None => http_response[1].status_code = 500
    /\ (error # None /\ error[1].msg = NoAssistantMessage) =>
         reply_has_match = Some(FALSE)

\* A completed run whose thread holds only a user message and another run's
\* assistant message: the turn fails and POST /ask answers 500.
Wit_C12_NoMessageOfThisRun ==
    /\ Responded
    /\ reply_has_match = Some(FALSE)
    /\ calls[Len(calls)].op = "messages.list"
    /\ http_response[1].status_code = 500
    /\ http_response[1].detail = NoAssistantMessage

(***************************************************************************)
(* C16 as stated.  POST /ask answers every failure of chat with one and    *)
(* the same response: the response it gives to a poll timeout.             *)
(***************************************************************************)
FailedResponse == http_response # None /\ http_response[1].status_code = 500

CE_C16_OneGenericErrorResponse ==
    FailedResponse =>
        http_response[1] = [status_code |-> 500, detail |-> TimeoutMessage]

(***************************************************************************)
(* C16, amended.  POST /ask answers a failure of chat with status 500 and  *)
(* the message of that failure as the detail, and never with a success     *)
(* body; a success body is given only when chat raised nothing, and it     *)
(* carries the rewritten text and the citations of the finished pass.      *)
(***************************************************************************)
Thm_C16_FailureBecomes500 ==
    http_response # None =>
        IF error # None
        THEN /\ http_response[1].status_code = 500
             /\ DOMAIN http_response[1] = {"status_code", "detail"}
             /\ http_response[1].detail = error[1].msg \o error[1].arg
             /\ error[1].msg \in
                  {TimeoutMessage, "Run failed: ",
                   "Run ended with unexpected status: ", NoAssistantMessage}
        ELSE /\ http_response[1].status_code = 200
             /\ idx = Len(annotations)
             /\ http_response[1].body.assistant_message = response_text
             /\ http_response[1].body.citations = citations

\* The response to a cancelled run names the status.
Wit_C16_CancelledDetail ==
    /\ Responded
    /\ http_response[1].status_code = 500
    /\ run_status.status = "cancelled"
    /\ http_response[1].detail = "Run ended with unexpected status: cancelled"

(***************************************************************************)
(* C18.  The upstream calls of a turn stand in this order: threads.create  *)
(* first and only when the request carried no thread id, then              *)
(* messages.create, then runs.create, then one or more runs.retrieve, then *)
(* messages.list, which follows a status check that returned completed,    *)
(* then files.retrieve.  A turn whose run failed, was cancelled or timed   *)
(* out has listed no messages and has run no step of the citation pass.    *)
(* Of completed, failed and timed out at most one holds.                   *)
(***************************************************************************)
OpAt(i) == calls[i].op

\* The polling is over.
Polled == pc \notin {"thread", "message", "run", "poll", "sleep"}

RunCompleted == Polled /\ checks >= 1 /\ run_status.status = "completed"

RunFailed == Polled /\ checks >= 1 /\ run_status.status \in {"failed", "cancelled"}

RunTimedOut == error # None /\ error[1].msg = TimeoutMessage

Thm_C18_UpstreamOrder ==
    /\ \A i \in 1..Len(calls) :
         /\ OpAt(i) = "threads.create" => i = 1 /\ req_thread_id = None
         /\ OpAt(i) = "messages.create" =>
              \/ i = 1 /\ req_thread_id # None
              \/ i = 2 /\ OpAt(1) = "threads.create"
         /\ OpAt(i) = "runs.create" => i > 1 /\ OpAt(i - 1) = "messages.create"
         /\ OpAt(i) = "runs.retrieve" =>
              i > 1 /\ OpAt(i - 1) \in {"runs.create", "runs.retrieve"}
         /\ OpAt(i) = "messages.list" =>
              /\ i > 1 /\ OpAt(i - 1) = "runs.retrieve"
              /\ run_status.status = "completed"
         /\ OpAt(i) = "files.retrieve" =>
              i > 1 /\ OpAt(i - 1) \in {"messages.list", "files.retrieve"}
         /\ OpAt(i) \in {"threads.create", "messages.create", "runs.create",
                          "runs.retrieve", "messages.list", "files.retrieve"}
    /\ (RunFailed \/ RunTimedOut) =>
         /\ \A i \in 1..Len(calls) :
              OpAt(i) \notin {"messages.list", "files.retrieve"}
         /\ assistant_message = None /\ idx = 0
         /\ citations = <<>> /\ citation_mapping = <<>>
         /\ pc \in {"polled", "raised"}
    /\ ~(RunCompleted /\ RunFailed)
    /\ ~(RunCompleted /\ RunTimedOut)
    /\ ~(RunFailed /\ RunTimedOut)
    /\ error # None =>
         RunFailed \/ RunTimedOut \/ (RunCompleted /\ reply_has_match = Some(FALSE))

\* A turn that made every kind of upstream call: a new thread, three status
\* checks, the message list and a file lookup.
Wit_C18_AllSixOperations ==
    /\ Responded
    /\ RunCompleted
    /\ Len(calls) = 8
    /\ OpAt(1) = "threads.create"
    /\ OpAt(4) = "runs.retrieve" /\ OpAt(6) = "runs.retrieve"
    /\ OpAt(7) = "messages.list"
    /\ OpAt(8) = "files.retrieve"

(***************************************************************************)
(* C19.  Once the budget of 60 status checks is used up without a terminal *)
(* status, the sixtieth status check stays the last upstream call of the   *)
(* turn, up to and including the response that carries the timeout: no     *)
(* cancellation, no status check, no message list, no file lookup.         *)
(***************************************************************************)
BudgetExhausted == Polled /\ checks = 60 /\ NonTerminal

Thm_C19_NothingAfterTimeout ==
    (BudgetExhausted \/ RunTimedOut) =>
        /\ Len(calls) = 62 + ThreadsCreated
        /\ OpAt(Len(calls)) = "runs.retrieve"
        /\ StatusChecksMade = 60
        /\ \A i \in 1..Len(calls) :
             OpAt(i) \in {"threads.create", "messages.create", "runs.create",
                          "runs.retrieve"}
        /\ pc \in {"polled", "raised"}

\* The timeout has reached the caller of POST /ask, on a thread the turn
\* created: 63 upstream calls, the last one the sixtieth status check.
Wit_C19_TimeoutAnswered ==
    /\ Responded
    /\ http_response[1].status_code = 500
    /\ http_response[1].detail = TimeoutMessage
    /\ Len(calls) = 63
    /\ OpAt(63) = "runs.retrieve"

(***************************************************************************)
(* C20.  In one citation pass files.retrieve is called at most once for a  *)
(* file identifier, and exactly once for every identifier among the file   *)
(* citations processed so far, whether the call returned a name or raised; *)
(* the cache holds one name for exactly those identifiers, the fallback    *)
(* name where the call raised, and the name of every citation is the       *)
(* cached name of its file; the pass starts with an empty cache.           *)
(***************************************************************************)
LookupsOf(f) ==
    Cardinality({i \in 1..Len(calls) :
                   calls[i].op = "files.retrieve" /\ calls[i].file_id = f})

ProcessedIds == {annotations[i].file_id : i \in {j \in 1..idx : CitesFile(j)}}

Thm_C20_OneLookupPerFile ==
    /\ \A f \in FileIds :
         /\ LookupsOf(f) <= 1
         /\ LookupsOf(f) = 1 <=> f \in ProcessedIds
    /\ DOMAIN file_cache = ProcessedIds
    /\ \A f \in lookup_failed :
         /\ LookupsOf(f) = 1
         /\ file_cache[f] = Str_Archivo \o Tail8(f)
    /\ \A k \in 1..Len(citations) :
         citations[k].file_name = file_cache[citations[k].file_id]
    /\ (pc = "list" \/ (pc = "cite" /\ idx = 0)) => file_cache = EmptyDict

\* Two annotations of one file whose lookup raised: one call, and the
\* fallback name served from the cache the second time.
Wit_C20_FailedLookupCached ==
    /\ pc = "done"
    /\ Len(annotations) = 2
    /\ CitesFile(1) /\ CitesFile(2)
    /\ annotations[1].file_id = annotations[2].file_id
    /\ annotations[1].file_id \in lookup_failed
    /\ LookupsOf(annotations[1].file_id) = 1
    /\ Len(citations) = 1

(***************************************************************************)
(* C17.  For every marker string of the file citations processed so far,   *)
(* the rewrite table holds one entry, and it maps the marker to the        *)
(* replacement of the last annotation with that marker: the display marker *)
(* of its file when the file is linked, the empty string when it is not.   *)
(* The citation of an earlier annotation with the same marker and another  *)
(* replacement stays in the list at its place with its number.  When the   *)
(* pass is over and all its file citations carry one marker string, the    *)
(* final text is the raw text with every occurrence of that string         *)
(* replaced by the last annotation's replacement.                          *)
(***************************************************************************)
\* The last processed file citation whose marker is m.
LastWith(m) ==
    CHOOSE i \in 1..idx :
        /\ CitesFile(i) /\ annotations[i].text = m
        /\ \A j \in (i + 1)..idx : ~(CitesFile(j) /\ annotations[j].text = m)

\* The place of file f in the citations list, 0 when it has none.
PlaceOf(f) ==
    IF \E k \in 1..Len(citations) : citations[k].file_id = f
    THEN CHOOSE k \in 1..Len(citations) : citations[k].file_id = f
    ELSE 0

\* What the occurrences of the marker of annotation i are to become.
ReplacementOf(i) ==
    IF AcceptedAt(i) THEN Bracketed(PlaceOf(annotations[i].file_id)) ELSE <<>>

ProcessedMarkers == {annotations[i].text : i \in {j \in 1..idx : CitesFile(j)}}

\* t with r for the occurrences of m, read off the text from position p on.
RECURSIVE WithInstead(_, _, _, _)
WithInstead(t, m, r, p) ==
    IF p > Len(t) THEN <<>>
    ELSE IF p + Len(m) - 1 <= Len(t) /\ SubSeq(t, p, p + Len(m) - 1) = m
         THEN r \o WithInstead(t, m, r, p + Len(m))
         ELSE <<t[p]>> \o WithInstead(t, m, r, p + 1)

WellFormedAt(n) ==
    /\ n \in 1..Len(document.items)
    /\ {"file", "title", "link"} \subseteq DOMAIN document.items[n]
    /\ "not_a_dict" \notin DOMAIN document.items[n]

\* The last well-formed record of the document for file name f, 0 when there
\* is none.
LastRecordOf(f) ==
    LET ns == {n \in 1..Len(document.items) :
                 WellFormedAt(n) /\ document.items[n].file = f}
    IN  IF ns = {} THEN 0 ELSE CHOOSE n \in ns : \A k \in ns : k <= n

RecordedNames ==
    {document.items[n].file : n \in {k \in 1..Len(document.items) : WellFormedAt(k)}}

\* The load that Init takes for granted is the load of that document.
LoadOfReferenceData ==
    (lpc = "loaded" /\ document = JsonArray(ReferenceData)) =>
        /\ file_to_link = LoadLinks(ReferenceData, Len(ReferenceData))
        /\ file_to_title = LoadTitles(ReferenceData, Len(ReferenceData))

(***************************************************************************)
(* C13.  The construction of the index raises nothing, whatever the        *)
(* reference file holds; and when the file is missing or is not valid JSON *)
(* the constructed index is empty, so that no file name has a link.        *)
(***************************************************************************)
CE_C13_LoadNeverRaises ==
    /\ lpc # "raised"
    /\ load_error = None
    /\ (lpc = "loaded" /\ document.kind \in {"missing", "invalid_json"}) =>
         /\ file_to_link = EmptyDict
         /\ file_to_title = EmptyDict
         /\ \A name \in FileNames : get_download_link(name) = None

(***************************************************************************)
(* C14.  For a document that is a JSON array the load does not abort, and  *)
(* when it is over file_to_link maps exactly the file names of the records *)
(* that have file, title and link, each to the link of its last such       *)
(* record, and file_to_title has the same keys.                            *)
(***************************************************************************)
CE_C14_MalformedRecordsSkipped ==
    document.kind = "array" =>
        /\ lpc # "raised"
        /\ lpc = "loaded" =>
             /\ DOMAIN file_to_link = RecordedNames
             /\ DOMAIN file_to_title = DOMAIN file_to_link
             /\ \A f \in RecordedNames :
                  /\ file_to_link[f] = document.items[LastRecordOf(f)].link
                  /\ file_to_title[f] = document.items[LastRecordOf(f)].title

(***************************************************************************)
(* Vocabulary of the properties of two turns.                              *)
(***************************************************************************)
\* The locals of a pass run alone on annotations anns with the lookup
\* answers names, after n annotations.
RECURSIVE PassAlone(_, _, _)
PassAlone(anns, names, n) ==
    IF n = 0 THEN NewLocals
    ELSE PassStep(PassAlone(anns, names, n - 1), anns[n],
                  IF anns[n].type = "file_citation" THEN names[anns[n].file_id]
                  ELSE [ok |-> FALSE, filename |-> <<>>])

\* What files.retrieve answered in the single turn, read off its cache.
ObservedNames ==
    [f \in DOMAIN file_cache |->
        IF f \in lookup_failed THEN [ok |-> FALSE, filename |-> <<>>]
        ELSE [ok |-> TRUE, filename |-> file_cache[f]]]

\* The pass run alone is the pass of the single turn.
PassAloneIsThePass ==
    pc \in {"cite", "return", "done"} =>
        PassAlone(annotations, ObservedNames, idx) =
            [file_cache |-> file_cache, citation_mapping |-> citation_mapping,
             seen_files |-> seen_files, citations |-> citations]

(***************************************************************************)
(* C15.  With two turns interleaved in any way, the locals of each turn    *)
(* (file-name cache, rewrite table, accepted-citation map, citations) are  *)
(* at every step what the pass run alone on that turn's message and lookup *)
(* answers has after as many annotations, the text and citations each turn *)
(* returns are those of the pass run alone, and the reference index is the *)
(* loaded one throughout.                                                  *)
(***************************************************************************)
AloneAt(t) ==
    PassAlone(upstream[t].annotations, upstream[t].names, frames[t].idx)

Thm_C15_TurnsIndependent ==
    /\ file_to_link = LoadLinks(ReferenceData, Len(ReferenceData))
    /\ \A t \in TurnIds :
         /\ frames[t].pc \in {"cite", "return", "done"} =>
              /\ file_caches[t] = AloneAt(t).file_cache
              /\ frames[t].citation_mapping = AloneAt(t).citation_mapping
              /\ frames[t].seen_files = AloneAt(t).seen_files
              /\ frames[t].citations = AloneAt(t).citations
         /\ frames[t].pc \in {"return", "done"} =>
              /\ frames[t].idx = Len(upstream[t].annotations)
              /\ frames[t].response_text =
                    RewriteText(upstream[t].text, AloneAt(t).citation_mapping,
                                Len(AloneAt(t).citation_mapping))

\* Both turns are in the middle of their passes, each has looked up the same
\* file identifier, and their caches hold different names for it: the first
\* turn cites the file under the name the upstream gave, the second under
\* the fallback name of its failed lookup.
Wit_C15_SameFileTwoNames ==
    /\ frames[1].pc = "cite" /\ frames[2].pc = "cite"
    /\ frames[1].idx = 1 /\ frames[2].idx = 1
    /\ Len(frames[1].annotations) = 2 /\ Len(frames[2].annotations) = 2
    /\ FileId1 \in DOMAIN file_caches[1] /\ FileId1 \in DOMAIN file_caches[2]
    /\ file_caches[1][FileId1] = Name_A
    /\ file_caches[2][FileId1] = Str_Archivo \o Tail8(FileId1)
    /\ Len(frames[1].citations) = 1 /\ Len(frames[2].citations) = 1
    /\ frames[1].citations[1].file_name = Name_A
    /\ frames[2].citations[1].file_name = Str_Archivo \o Tail8(FileId1)

(***************************************************************************)
(* C21.  When the assistant message has a text and no annotation, the pass *)
(* leaves the text as it is, character for character, the citations list   *)
(* and the rewrite table are empty, and files.retrieve is never called.    *)
(***************************************************************************)
HasRawText ==
    /\ assistant_message # None
    /\ assistant_message[1].content # <<>>
    /\ assistant_message[1].content[1].type = "text"

Thm_C21_NoAnnotationsNoChange ==
    (pc \in {"cite", "return", "done"} /\ HasRawText
     /\ assistant_message[1].content[1].annotations = <<>>) =>
        /\ annotations = <<>>
        /\ response_text = assistant_message[1].content[1].value
        /\ citations = <<>>
        /\ citation_mapping = <<>>
        /\ file_cache = EmptyDict
        /\ \A i \in 1..Len(calls) : calls[i].op # "files.retrieve"

\* A text that holds both marker strings and has no annotation is returned
\* as it is.
Wit_C21_MarkersWithoutAnnotations ==
    /\ pc = "done"
    /\ HasRawText
    /\ annotations = <<>>
    /\ RawText = <<"[", "1", "]", "+">>
    /\ response_text = <<"[", "1", "]", "+">>
    /\ citations = <<>>

(***************************************************************************)
(* C22.  In every step of the pass that processes a file citation whose    *)
(* file identifier an earlier annotation of the pass carried, the cached   *)
(* name is kept and nothing is looked up; if the identifier has a citation *)
(* the marker is mapped to that citation's display marker, never to the    *)
(* empty string, and if it has none the marker is mapped to the empty      *)
(* string and no citation is created; and in every state an identifier of  *)
(* the processed annotations has a citation exactly when its one cached    *)
(* name has a usable link.                                                 *)
(***************************************************************************)
\* The annotation the next step of the pass processes is a file citation of
\* a file identifier that occurred before.
RepeatsFile ==
    /\ pc = "cite"
    /\ idx < Len(annotations)
    /\ annotations[idx + 1].type = "file_citation"
    /\ \E i \in 1..idx :
         CitesFile(i) /\ annotations[i].file_id = annotations[idx + 1].file_id

CitedIds == {citations[k].file_id : k \in 1..Len(citations)}

OneOutcomePerFile ==
    pc \in {"cite", "return", "done"} =>
        \A f \in ProcessedIds :
            /\ f \in DOMAIN file_cache
            /\ (f \in CitedIds) <=> Linked(file_cache[f])
            /\ (f \in CitedIds) <=> (f \in DOMAIN seen_files)

RepeatedFileStep ==
    (RepeatsFile /\ idx' = idx + 1) =>
        LET a == annotations[idx + 1]
        IN  /\ file_cache' = file_cache
            /\ calls' = calls
            /\ citations' = citations
            /\ IF a.file_id \in CitedIds
               THEN /\ citations[PlaceOf(a.file_id)].text # <<>>
                    /\ \E e \in 1..Len(citation_mapping') :
                         citation_mapping'[e] =
                             <<a.text, citations[PlaceOf(a.file_id)].text>>
               ELSE \E e \in 1..Len(citation_mapping') :
                         citation_mapping'[e] = <<a.text, <<>> >>

Thm_C22_SameFileSameOutcome ==
    /\ []OneOutcomePerFile
    /\ [][RepeatedFileStep]_vars

\* Two annotations of one unlinked file with different markers: both
\* markers are mapped to the empty string and there is no citation.
Wit_C22_DeletedTwice ==
    /\ pc = "done"
    /\ Len(annotations) = 2
    /\ annotations[1].file_id = annotations[2].file_id
    /\ annotations[1].text # annotations[2].text
    /\ UnlinkedAt(1) /\ UnlinkedAt(2)
    /\ MapsTo(annotations[1].text, <<>>)
    /\ MapsTo(annotations[2].text, <<>>)
    /\ citations = <<>>

(***************************************************************************)
(* C23.  Two processed annotations with different file identifiers whose   *)
(* resolved names are one linked file name have two citations, at          *)
(* different places of the list and with different display markers, that   *)
(* carry the same file name and the same download link.                    *)
(***************************************************************************)
Thm_C23_DedupByIdentifier ==
    \A i, j \in 1..idx :
        (/\ AcceptedAt(i) /\ AcceptedAt(j)
         /\ annotations[i].file_id # annotations[j].file_id
         /\ ResolvedName(i) = ResolvedName(j)) =>
            LET ki == PlaceOf(annotations[i].file_id)
                kj == PlaceOf(annotations[j].file_id)
            IN  /\ ki \in 1..Len(citations) /\ kj \in 1..Len(citations)
                /\ ki # kj
                /\ citations[ki].text # citations[kj].text
                /\ citations[ki].file_name = ResolvedName(i)
                /\ citations[kj].file_name = ResolvedName(i)
                /\ citations[ki].download_link = file_to_link[ResolvedName(i)]
                /\ citations[kj].download_link = file_to_link[ResolvedName(i)]

\* Both file identifiers resolve to "A.pdf": two citations, [1] and [2],
\* of that one file name.
Wit_C23_TwoIdsOneName ==
    /\ pc = "done"
    /\ Len(annotations) = 2
    /\ CitesFile(1) /\ CitesFile(2)
    /\ annotations[1].file_id # annotations[2].file_id
    /\ Len(citations) = 2
    /\ citations[1].file_name = Name_A /\ citations[2].file_name = Name_A
    /\ citations[1].text = <<"[", "1", "]">>
    /\ citations[2].text = <<"[", "2", "]">>
    /\ citations[1].download_link = citations[2].download_link

(***************************************************************************)
(* C24.  The annotations without a file citation leave no trace in the     *)
(* pass: its cache, rewrite table, accepted-citation map and citations are *)
(* at every step those of the pass run on the file citations alone, one    *)
(* lookup is made per file identifier of the file citations and none       *)
(* besides, and the final text is the raw text rewritten with the table of *)
(* the file citations alone.                                               *)
(***************************************************************************)
IsFileCitation(a) == a.type = "file_citation"

\* The file citations among the annotations processed so far.
FileCitationsSoFar == SelectSeq(SubSeq(annotations, 1, idx), IsFileCitation)

Thm_C24_NonCitationSkipped ==
    pc \in {"cite", "return", "done"} =>
        LET alone == PassAlone(FileCitationsSoFar, ObservedNames,
                               Len(FileCitationsSoFar))
        IN  /\ file_cache = alone.file_cache
            /\ citation_mapping = alone.citation_mapping
            /\ seen_files = alone.seen_files
            /\ citations = alone.citations
            /\ \A e \in 1..Len(citation_mapping) :
                 \E i \in 1..idx :
                     CitesFile(i) /\ annotations[i].text = citation_mapping[e][1]
            /\ Cardinality({i \in 1..Len(calls) : calls[i].op = "files.retrieve"})
                 = Cardinality({FileCitationsSoFar[i].file_id :
                                  i \in 1..Len(FileCitationsSoFar)})
            /\ pc \in {"return", "done"} =>
                 response_text =
                     RewriteText(RawText, alone.citation_mapping,
                                 Len(alone.citation_mapping))

\* An annotation without a file citation whose marker is "[1]", then a file
\* citation that becomes [1]: one citation, and the "[1]" of the skipped
\* annotation is still in the text.
Wit_C24_SkippedThenNumberedOne ==
    /\ pc = "done"
    /\ Len(annotations) = 2
    /\ annotations[1].type = "file_path"
    /\ annotations[1].text = <<"[", "1", "]">>
    /\ AcceptedAt(2)
    /\ annotations[2].text = <<"+">>
    /\ RawText = <<"[", "1", "]", "+">>
    /\ response_text = <<"[", "1", "]", "[", "1", "]">>
    /\ Len(citations) = 1
    /\ citations[1].text = <<"[", "1", "]">>
    /\ Len(citation_mapping) = 1

(***************************************************************************)
(* Vocabulary of the properties of the Drive search.                       *)
(***************************************************************************)
\* The files of page k, none when the page has no files key.
FilesOfPage(k) ==
    IF "files" \in DOMAIN drive_pages[k] THEN drive_pages[k].files ELSE <<>>

\* The files of the first n pages, page after page.
RECURSIVE FilesUpTo(_)
FilesUpTo(n) == IF n = 0 THEN <<>> ELSE FilesUpTo(n - 1) \o FilesOfPage(n)

\* The first page without a nextPageToken.
LastPage ==
    CHOOSE k \in 1..Len(drive_pages) :
        /\ "nextPageToken" \notin DOMAIN drive_pages[k]
        /\ \A j \in 1..(k - 1) : "nextPageToken" \in DOMAIN drive_pages[j]

(***************************************************************************)
(* C25.  The first request of buscar_en_carpeta carries no page token and  *)
(* the k-th carries the nextPageToken of page k - 1; a call that returned  *)
(* without a failure made one request per page up to the first page        *)
(* without a token and no more, and its result holds, in page order and in *)
(* the order within the pages, one formatted entry for every file of those *)
(* pages; a call one of whose requests failed returns the empty list,      *)
(* whatever it had collected; and a finished call has returned a list.     *)
(***************************************************************************)
Thm_C25_Pagination ==
    /\ \A k \in 1..Len(drive_requests) :
         /\ k <= Len(drive_pages)
         /\ drive_requests[k] =
              (IF k = 1 THEN None ELSE <<drive_pages[k - 1].nextPageToken>>)
         /\ \A j \in 1..(k - 1) : "nextPageToken" \in DOMAIN drive_pages[j]
    /\ dpc = "request" => drive_result = None
    /\ dpc = "returned" =>
         /\ Len(drive_requests) = LastPage
         /\ drive_result # None
         /\ Len(drive_result[1]) = Len(FilesUpTo(LastPage))
         /\ \A n \in 1..Len(drive_result[1]) :
              /\ drive_result[1][n].id = FilesUpTo(LastPage)[n].id
              /\ drive_result[1][n].file_name = FilesUpTo(LastPage)[n].name
              /\ drive_result[1][n].download_link =
                    "https://drive.google.com/file/d/"
                        \o FilesUpTo(LastPage)[n].id \o "/view"
    /\ dpc = "failed" => drive_result = <<(<<>>)>>

\* The second request failed after a first page with files: the files
\* collected from the first page are not returned.
Wit_C25_SecondPageFails ==
    /\ dpc = "failed"
    /\ Len(drive_requests) = 2
    /\ Len(archivos_formateados) = 2
    /\ archivos_formateados[1].name = <<"A">>
    /\ archivos_formateados[2].name = <<"B">>
    /\ drive_result = <<(<<>>)>>

====
